---- MODULE Spec2Model ----
(***************************************************************************)
(* A model of scripts/codepost/course.py: the Course class, which sorts    *)
(* the Canvas roster into instructors, graders, students and orphans, and  *)
(* its two methods getGradingAssignment and assignmentToString.            *)
(*                                                                         *)
(* A Person is identified by its NUID; its name is NameOf[nuid] and its    *)
(* cseLogin is the state variable cseLogin[nuid].  A Group is the sequence *)
(* of the NUIDs of its members.  A dict keyed by NUID (or by Person) is    *)
(* modelled by its key set; the assignment dict, whose key order the       *)
(* report's stable sort reads, also keeps its insertion order.             *)
(***************************************************************************)
EXTENDS Integers, Sequences, FiniteSets, TLC

\* ------------------------------------------------------------- bounds

\* The longest group list canvas.groups may hold.
MaxGroups == 3

\* The number of Course objects built in one process under SpecReuse.
MaxCourses == 2

\* The NUIDs a roster or an override list may hold.
Nuids == {"n1", "n2", "n3"}

\* The NUIDs of the rosters of SpecReuse.
ReuseNuids == {"n1", "n2"}

\* The groups canvas.groups may hold: one has no member.
GroupPool == {<< >>, <<"n1">>, <<"n2", "n1">>}

\* Python's None, and the logins the user database may give.
None == "None"
CseLogins == {"login"}

\* Person.name, as its rank in Python's string order ("n1" and "n3" tie).
NameOf == [n \in Nuids |-> IF n = "n2" THEN 1 ELSE 2]

\* ------------------------------------------------------------- state

VARIABLES
    roster,        \* canvas.roster: the NUIDs of the module-level roster
    groups,        \* canvas.groups: the module-level list of Groups
    cseLogin,      \* Person.cseLogin of every roster Person
    instructors,   \* Course.instructors, the class-level dict
    graders,       \* Course.graders, the class-level dict
    students,      \* Course.students, the class-level dict
    orphans,       \* Course.orphans, the class-level dict
    courses,       \* the Course objects built so far, with each one's inputs
    assignment,    \* the assignment dict the caller holds
    lastOp,        \* the last operation called
    err,           \* the exception it raised, or None
    ret            \* the value it returned

vars == <<roster, groups, cseLogin, instructors, graders, students, orphans,
          courses, assignment, lastOp, err, ret>>

courseVars == <<roster, groups, cseLogin, instructors, graders, students,
                orphans, courses>>

NoAssignment == [held |-> FALSE, order |-> << >>, lists |-> << >>]
NoValue == [kind |-> "none"]

\* Every list of at most MaxGroups groups.
GroupLists == UNION {[1..k -> GroupPool] : k \in 0..MaxGroups}

\* The maps udb.mapNuidsToCseLogins may return for a roster: a key may be
\* missing, or map to None, or to a login.
Resolutions(r) == UNION {[d -> {None} \cup CseLogins] : d \in SUBSET r}

\* ------------------------------------------------- Course.__init__

\* Lines 66-68: the login a roster Person holds after the update.
UpdatedLogin(nuid, nuidsToCseLogins, old) ==
    IF nuid \in DOMAIN nuidsToCseLogins /\ nuidsToCseLogins[nuid] # None
    THEN nuidsToCseLogins[nuid]
    ELSE old

\* IsOrphan with the fault of testing the override lists first.
C2MutantIsOrphan(nuid, login, instructorNuids, graderNuids) ==
    login = None /\ nuid \notin instructorNuids /\ nuid \notin graderNuids

\* Lines 77-78: a Person without a cse login is orphaned.
IsOrphan(nuid, login, instructorNuids, graderNuids) ==
    login = None

\* IsGrader with the fault of an elif: a grader only when not an instructor.
C10MutantIsGrader(nuid, login, instructorNuids, graderNuids) ==
    /\ ~IsOrphan(nuid, login, instructorNuids, graderNuids)
    /\ nuid \notin instructorNuids
    /\ nuid \in graderNuids

\* Lines 79-82.
IsInstructor(nuid, login, instructorNuids, graderNuids) ==
    /\ ~IsOrphan(nuid, login, instructorNuids, graderNuids)
    /\ (nuid \in instructorNuids \/ nuid \in graderNuids)
    /\ nuid \in instructorNuids

\* Lines 79-80, 83-84.
IsGrader(nuid, login, instructorNuids, graderNuids) ==
    /\ ~IsOrphan(nuid, login, instructorNuids, graderNuids)
    /\ (nuid \in instructorNuids \/ nuid \in graderNuids)
    /\ nuid \in graderNuids

\* IsStudent with the fault of testing instructorNuids alone.
C1MutantIsStudent(nuid, login, instructorNuids, graderNuids) ==
    /\ ~IsOrphan(nuid, login, instructorNuids, graderNuids)
    /\ nuid \notin instructorNuids

\* Lines 79-80, 85-86.
IsStudent(nuid, login, instructorNuids, graderNuids) ==
    /\ ~IsOrphan(nuid, login, instructorNuids, graderNuids)
    /\ ~(nuid \in instructorNuids \/ nuid \in graderNuids)

\* Course.__init__ (lines 51-86).  The four dicts are attributes of the
\* class (lines 39-49) that __init__ never rebinds: every Course writes
\* into the same four dicts.
Course__init__(instructorNuids, graderNuids, nuidsToCseLogins) ==
    LET login == [n \in Nuids |->
                    IF n \in roster
                    THEN UpdatedLogin(n, nuidsToCseLogins, cseLogin[n])
                    ELSE cseLogin[n]]
    IN  /\ cseLogin' = login
        /\ orphans' = orphans \cup
              {n \in roster : IsOrphan(n, login[n], instructorNuids, graderNuids)}
        /\ instructors' = instructors \cup
              {n \in roster : IsInstructor(n, login[n], instructorNuids, graderNuids)}
        /\ graders' = graders \cup
              {n \in roster : IsGrader(n, login[n], instructorNuids, graderNuids)}
        /\ students' = students \cup
              {n \in roster : IsStudent(n, login[n], instructorNuids, graderNuids)}
        /\ courses' = Append(courses,
              [instructorNuids |-> instructorNuids,
               graderNuids |-> graderNuids,
               nuidsToCseLogins |-> nuidsToCseLogins])
        /\ lastOp' = "Course"
        /\ err' = None
        /\ ret' = NoValue
        /\ UNCHANGED <<roster, groups, assignment>>

\* The maps that hold every roster NUID, with None or a login.
TotalResolutions(r) == [r -> {None} \cup CseLogins]

\* Line 154: the module builds its one Course, from config's lists (one
\* instructor, any graders) and the user database's answer.
ModuleCourse ==
    /\ Len(courses) = 0
    /\ \E instructorNuids \in {{"n1"}}, graderNuids \in SUBSET Nuids :
       \E nuidsToCseLogins \in TotalResolutions(roster) :
          Course__init__(instructorNuids, graderNuids, nuidsToCseLogins)

\* Line 154 again, with every pair of lists and every answer of the user
\* database, a key missing from it included.
ClassifyCourse ==
    /\ Len(courses) = 0
    /\ \E instructorNuids \in SUBSET Nuids, graderNuids \in SUBSET Nuids :
       \E nuidsToCseLogins \in Resolutions(roster) :
          Course__init__(instructorNuids, graderNuids, nuidsToCseLogins)

\* Course(...) called by a client of the module, any number of times.
AnotherCourse ==
    /\ Len(courses) < MaxCourses
    /\ \E instructorNuids \in SUBSET ReuseNuids, graderNuids \in SUBSET ReuseNuids :
       \E nuidsToCseLogins \in Resolutions(roster) :
          Course__init__(instructorNuids, graderNuids, nuidsToCseLogins)

\* ------------------------------------------ Course.getGradingAssignment

\* Lines 113 and 115: the keys of a dict as a list, shuffled: any order.
KeyLists(keys) ==
    {s \in [1..Cardinality(keys) -> keys] :
        \A i, j \in 1..Cardinality(keys) : s[i] = s[j] => i = j}

\* Line 116: random.shuffle of a list: any permutation of its positions.
Shuffles(list) ==
    {[i \in 1..Len(list) |-> list[p[i]]] : p \in Permutations(1..Len(list))}

\* GroupsAfterShuffle with the fault of shuffling self.groups itself.
C7MutantGroupsAfterShuffle(old, shuffled) ==
    shuffled

\* Line 114: the shuffle works on a deep copy; canvas.groups keeps its order.
GroupsAfterShuffle(old, shuffled) ==
    old

\* InitialLists with the fault of a list that is not empty at the start.
C5MutantInitialLists(graderNuids) ==
    [g \in {graderNuids[i] : i \in 1..Len(graderNuids)} |-> << << >> >>]

\* Lines 117-120: every grader starts with an empty list.
InitialLists(graderNuids) ==
    [g \in {graderNuids[i] : i \in 1..Len(graderNuids)} |-> << >>]

\* AddGroup with the fault of replacing the list instead of appending.
C3MutantAddGroup(list, group) ==
    <<group>>

\* Line 125: assignment[g].append(group).
AddGroup(list, group) ==
    Append(list, group)

\* NextIndex with the fault of never advancing.
C4MutantNextIndex(i, n) ==
    i

\* Line 126: i = (i+1)%n.
NextIndex(i, n) ==
    (i + 1) % n

\* Lines 121-126: the loop over the shuffled groups, from the k-th on, with
\* Python's i; graderNuids[i] raises IndexError when the list is empty.
RECURSIVE RoundRobin(_, _, _, _, _)
RoundRobin(graderNuids, shuffled, k, i, lists) ==
    IF k > Len(shuffled)
    THEN [err |-> None, lists |-> lists]
    ELSE IF i >= Len(graderNuids)
    THEN [err |-> "IndexError", lists |-> lists]
    ELSE RoundRobin(graderNuids, shuffled, k + 1,
                    NextIndex(i, Len(graderNuids)),
                    [lists EXCEPT ![graderNuids[i + 1]] = AddGroup(@, shuffled[k])])

\* Course.getGradingAssignment (lines 103-127).
getGradingAssignment ==
    /\ Len(courses) >= 1
    /\ \E graderNuids \in KeyLists(graders), shuffled \in Shuffles(groups) :
          LET out == RoundRobin(graderNuids, shuffled, 1, 0,
                                InitialLists(graderNuids))
              a == [held |-> TRUE, order |-> graderNuids, lists |-> out.lists]
          IN  /\ err' = out.err
              /\ ret' = IF out.err = None
                        THEN [kind |-> "assignment", value |-> a]
                        ELSE NoValue
              /\ assignment' = IF out.err = None THEN a ELSE assignment
              /\ groups' = GroupsAfterShuffle(groups, shuffled)
    /\ lastOp' = "getGradingAssignment"
    /\ UNCHANGED <<roster, cseLogin, instructors, graders, students, orphans,
                   courses>>

\* ------------------------------------------- Course.assignmentToString

RECURSIVE InsertByKey(_, _)
\* A <<key, item>> pair put into a sorted list, behind the pairs whose key
\* is not larger.
InsertByKey(sorted, pair) ==
    IF sorted = << >>
    THEN <<pair>>
    ELSE IF sorted[Len(sorted)][1] <= pair[1]
    THEN Append(sorted, pair)
    ELSE Append(InsertByKey(SubSeq(sorted, 1, Len(sorted) - 1), pair),
                sorted[Len(sorted)])

\* SortPairs with the fault of leaving the list as it is.
C8MutantSortPairs(pairs) ==
    pairs

RECURSIVE SortPairs(_)
\* list.sort(key=...) (lines 144, 147) on the <<key, item>> pairs: ascending
\* by key and stable.
SortPairs(pairs) ==
    IF pairs = << >>
    THEN << >>
    ELSE InsertByKey(SortPairs(SubSeq(pairs, 1, Len(pairs) - 1)),
                     pairs[Len(pairs)])

Items(pairs) == [i \in 1..Len(pairs) |-> pairs[i][2]]

\* Line 144: graders.sort(key=lambda x: x.name).
SortGraders(order) ==
    Items(SortPairs([i \in 1..Len(order) |-> <<NameOf[order[i]], order[i]>>]))

\* GroupKey with the fault of a default key for a group without members.
C9MutantGroupKey(group) ==
    IF Len(group) = 0
    THEN [err |-> None, key |-> 0]
    ELSE [err |-> None, key |-> NameOf[group[1]]]

\* Line 147: the key x.members[0].name; members[0] raises IndexError on a
\* group without members.
GroupKey(group) ==
    IF Len(group) = 0
    THEN [err |-> "IndexError", key |-> 0]
    ELSE [err |-> None, key |-> NameOf[group[1]]]

\* Line 147: groups.sort(key=lambda x: x.members[0].name).
SortGroups(list) ==
    Items(SortPairs([i \in 1..Len(list) |-> <<GroupKey(list[i]).key, list[i]>>]))

\* Lines 139-140: math.floor and math.ceil of a / b, for b > 0.
Floor(a, b) == a \div b
Ceil(a, b) == (a + b - 1) \div b

\* Lines 145-151: the loop over the sorted graders, from the k-th on.  Each
\* grader's list is sorted in place; a list holding a group without members
\* raises IndexError and stays as it was.
RECURSIVE RenderFrom(_, _, _, _)
RenderFrom(sortedGraders, k, lists, blocks) ==
    IF k > Len(sortedGraders)
    THEN [err |-> None, lists |-> lists, blocks |-> blocks]
    ELSE LET grader == sortedGraders[k]
             list == lists[grader]
         IN  IF \E j \in 1..Len(list) : GroupKey(list[j]).err # None
             THEN [err |-> "IndexError", lists |-> lists, blocks |-> blocks]
             ELSE RenderFrom(sortedGraders, k + 1,
                             [lists EXCEPT ![grader] = SortGroups(list)],
                             Append(blocks,
                                    [name |-> NameOf[grader],
                                     n |-> Len(list),
                                     groups |-> SortGroups(list)]))

\* Course.assignmentToString (lines 129-152), called with the assignment
\* the caller holds.  The text is modelled by its parts: the load range and,
\* per grader, the name, the count and the groups printed.
assignmentToString ==
    /\ Len(courses) >= 1
    /\ assignment.held
    /\ IF Cardinality(graders) = 0
       THEN /\ err' = "ZeroDivisionError"
            /\ ret' = NoValue
            /\ assignment' = assignment
       ELSE LET out == RenderFrom(SortGraders(assignment.order), 1,
                                  assignment.lists, << >>)
            IN  /\ err' = out.err
                /\ assignment' = [assignment EXCEPT !.lists = out.lists]
                /\ ret' = IF out.err = None
                          THEN [kind |-> "text",
                                range |-> <<Floor(Cardinality(students),
                                                  Cardinality(graders)),
                                            Ceil(Cardinality(students),
                                                 Cardinality(graders))>>,
                                blocks |-> out.blocks]
                          ELSE NoValue
    /\ lastOp' = "assignmentToString"
    /\ UNCHANGED courseVars

\* ------------------------------------------------------ specifications

\* The state when the module starts to load: canvas has given the roster
\* and the groups, no Person has a cse login yet, and the dicts of the class
\* are empty (lines 39-49).
Loaded(rosters, groupLists) ==
    /\ roster \in rosters
    /\ groups \in groupLists
    /\ cseLogin = [n \in Nuids |-> None]
    /\ instructors = {}
    /\ graders = {}
    /\ students = {}
    /\ orphans = {}
    /\ courses = << >>
    /\ assignment = NoAssignment
    /\ lastOp = "load"
    /\ err = None
    /\ ret = NoValue

Init == Loaded({Nuids}, GroupLists)

Next ==
    \/ ModuleCourse
    \/ getGradingAssignment
    \/ assignmentToString

\* The module as it runs, for a roster of three people and every group
\* list: one Course, then any calls of its two methods.
Spec == Init /\ [][Next]_vars

InitClassify == Loaded(SUBSET Nuids, {<< >>})

NextClassify == ClassifyCourse

\* The classification alone, over every roster and every input of it.
SpecClassify == InitClassify /\ [][NextClassify]_vars

InitReuse == Loaded(SUBSET ReuseNuids, {<< >>})

NextReuse == AnotherCourse

\* A client that builds several Courses in one process.
SpecReuse == InitReuse /\ [][NextReuse]_vars

\* ------------------------------------------------------------ claims

\* The Course the module built, and its inputs.
Built == Len(courses) = 1
InstructorIds == courses[1].instructorNuids
GraderIds == courses[1].graderNuids

\* The resolution of a Course gives no login for the NUID: the key is
\* missing or maps to None.
Unresolved(course, nuid) ==
    \/ nuid \notin DOMAIN course.nuidsToCseLogins
    \/ course.nuidsToCseLogins[nuid] = None

\* The count of the mappings, instructors and graders taken as one, that
\* hold the NUID.
Places(nuid) ==
    (IF nuid \in instructors \cup graders THEN 1 ELSE 0)
    + (IF nuid \in students THEN 1 ELSE 0)
    + (IF nuid \in orphans THEN 1 ELSE 0)

\* C1: after the Course is built, the identifiers of instructors, graders,
\* students and orphans together are exactly the roster's, and every roster
\* identifier is in exactly one mapping, instructors and graders counting
\* as one.
C1_PartitionCompleteness ==
    Built =>
        /\ instructors \cup graders \cup students \cup orphans = roster
        /\ \A n \in roster : Places(n) = 1

\* C1's case: a full roster with a person who is instructor and grader, a
\* student and an orphan, and an override identifier marking an orphan.
C1_Witness ==
    /\ Built
    /\ roster = Nuids
    /\ instructors \cap graders # {}
    /\ students # {}
    /\ orphans \cap GraderIds # {}

\* C2: a roster person without a resolved login is in orphans and in none
\* of instructors, graders and students, whatever the override lists hold.
C2_OrphanPrecedence ==
    Built =>
        \A n \in roster :
            Unresolved(courses[1], n) =>
                /\ n \in orphans
                /\ n \notin instructors \cup graders \cup students

\* C2's case: one person whose key is missing and one whose login is None,
\* both in both override lists, and both orphaned.
C2_Witness ==
    /\ Built
    /\ \E n, m \in roster :
        /\ n \notin DOMAIN courses[1].nuidsToCseLogins
        /\ m \in DOMAIN courses[1].nuidsToCseLogins
        /\ courses[1].nuidsToCseLogins[m] = None
        /\ {n, m} \subseteq InstructorIds \cap GraderIds
        /\ {n, m} \subseteq orphans

\* C10: a roster person with a resolved login is an instructor exactly when
\* in instructorIds, a grader exactly when in graderIds, a student exactly
\* when in neither, and never an orphan.
C10_ResolvedClassification ==
    Built =>
        \A n \in roster :
            ~Unresolved(courses[1], n) =>
                /\ n \in instructors <=> n \in InstructorIds
                /\ n \in graders <=> n \in GraderIds
                /\ n \in students <=> n \notin InstructorIds \cup GraderIds
                /\ n \notin orphans

\* C10's case: three resolved people, one in both override lists, one in
\* graderIds alone and one in neither.
C10_Witness ==
    /\ Built
    /\ roster = Nuids
    /\ \A n \in roster : ~Unresolved(courses[1], n)
    /\ InstructorIds \cap GraderIds # {}
    /\ GraderIds \ InstructorIds # {}
    /\ students # {}
    /\ instructors \cap graders # {}

\* The classification section 4.1 gives for a Course's own inputs.
OwnInstructors(course) ==
    {n \in roster : ~Unresolved(course, n) /\ n \in course.instructorNuids}
OwnGraders(course) ==
    {n \in roster : ~Unresolved(course, n) /\ n \in course.graderNuids}
OwnStudents(course) ==
    {n \in roster : /\ ~Unresolved(course, n)
                    /\ n \notin course.instructorNuids \cup course.graderNuids}
OwnOrphans(course) ==
    {n \in roster : Unresolved(course, n)}

\* C6: after any sequence of constructions, the four mappings of every
\* Course hold exactly the classification of that Course's own inputs.
\* (Every Course reads the four dicts of the class.)
C6_InstanceOwned ==
    \A i \in 1..Len(courses) :
        /\ instructors = OwnInstructors(courses[i])
        /\ graders = OwnGraders(courses[i])
        /\ students = OwnStudents(courses[i])
        /\ orphans = OwnOrphans(courses[i])

\* The number of times a group occurs in a list.
Count(group, list) ==
    Cardinality({i \in 1..Len(list) : list[i] = group})

RECURSIVE Assigned(_, _, _)
\* The number of times a group occurs in the lists of the first k graders
\* of an assignment.
Assigned(group, a, k) ==
    IF k = 0
    THEN 0
    ELSE Count(group, a.lists[a.order[k]]) + Assigned(group, a, k - 1)

\* getGradingAssignment has just returned an assignment.
Returned == lastOp = "getGradingAssignment" /\ err = None

\* C3: with at least one grader, getGradingAssignment returns an
\* assignment over exactly the Course's graders in which every group of the
\* Course's list occurs as often as in that list: none is duplicated, none
\* is omitted.
C3_AssignmentPartition ==
    (lastOp = "getGradingAssignment" /\ graders # {}) =>
        /\ err = None
        /\ ret.kind = "assignment"
        /\ DOMAIN ret.value.lists = graders
        /\ {ret.value.order[i] : i \in 1..Len(ret.value.order)} = graders
        /\ Len(ret.value.order) = Cardinality(graders)
        /\ \A g \in GroupPool :
              Assigned(g, ret.value, Len(ret.value.order)) = Count(g, groups)

\* C3's case: several graders, and a full group list that holds one group
\* twice.
C3_Witness ==
    /\ Returned
    /\ Cardinality(graders) >= 2
    /\ Len(groups) = MaxGroups
    /\ \E g \in GroupPool : Count(g, groups) = 2

\* C4: with N >= 1 graders and G groups, every grader of the returned
\* assignment has floor(G/N) or ceil(G/N) groups, and two graders' counts
\* differ by at most 1.
C4_LoadBalance ==
    (lastOp = "getGradingAssignment" /\ graders # {}) =>
        /\ err = None
        /\ \A g \in graders :
              Len(ret.value.lists[g]) \in
                  {Floor(Len(groups), Cardinality(graders)),
                   Ceil(Len(groups), Cardinality(graders))}
        /\ \A g, h \in graders :
              Len(ret.value.lists[g]) - Len(ret.value.lists[h]) <= 1

\* C4's case: more groups than graders and a remainder, so that one grader
\* has more groups than another.
C4_Witness ==
    /\ Returned
    /\ Cardinality(graders) = 2
    /\ Len(groups) = 3
    /\ \E g, h \in graders :
          Len(ret.value.lists[g]) = 2 /\ Len(ret.value.lists[h]) = 1

\* C5 as stated: with zero graders and at least one group the call fails
\* with an InvalidAssignmentError and returns nothing; with zero groups it
\* raises nothing and maps every grader to an empty list.
C5_Original ==
    lastOp = "getGradingAssignment" =>
        /\ (graders = {} /\ groups # << >>) =>
              (err = "InvalidAssignmentError" /\ ret = NoValue)
        /\ groups = << >> =>
              /\ err = None
              /\ ret.kind = "assignment"
              /\ DOMAIN ret.value.lists = graders
              /\ \A g \in graders : ret.value.lists[g] = << >>

\* C5, amended: with zero graders and at least one group the call fails
\* with an IndexError and returns nothing; with zero groups it raises
\* nothing and maps every grader to an empty list.
C5_ZeroGraderFailure ==
    lastOp = "getGradingAssignment" =>
        /\ (graders = {} /\ groups # << >>) =>
              (err = "IndexError" /\ ret = NoValue)
        /\ groups = << >> =>
              /\ err = None
              /\ ret.kind = "assignment"
              /\ DOMAIN ret.value.lists = graders
              /\ \A g \in graders : ret.value.lists[g] = << >>

\* C5's case: the call on a Course without graders and with groups failed.
C5_Witness ==
    /\ lastOp = "getGradingAssignment"
    /\ graders = {}
    /\ groups # << >>
    /\ err # None
    /\ roster # {}

\* C7: a call of getGradingAssignment leaves the four mappings and the
\* groups list of the Course as they were, in content and in order.
C7_AssignmentKeepsCourse ==
    [][lastOp' = "getGradingAssignment" =>
          UNCHANGED <<instructors, graders, students, orphans, groups>>]_vars

\* C7's case: an assignment was returned whose first grader got, as first
\* group, another group than the first of the Course's list: the shuffle
\* moved the groups.
C7_Witness ==
    /\ Returned
    /\ graders # {}
    /\ Len(groups) >= 2
    /\ ret.value.lists[ret.value.order[1]][1] # groups[1]

\* assignmentToString has just returned a text.
Rendered == lastOp = "assignmentToString" /\ err = None

\* The text names the graders of the assignment in ascending order of name,
\* and each grader's groups, all of them, in ascending order of the name of
\* the first member.
RenderedSorted ==
    Rendered =>
        /\ Len(ret.blocks) = Len(assignment.order)
        /\ \A i, j \in 1..Len(ret.blocks) :
              i < j => ret.blocks[i].name <= ret.blocks[j].name
        /\ \A g \in DOMAIN assignment.lists :
              \E i \in 1..Len(ret.blocks) :
                  /\ ret.blocks[i].name = NameOf[g]
                  /\ ret.blocks[i].n = Len(assignment.lists[g])
                  /\ \A gr \in GroupPool :
                        Count(gr, ret.blocks[i].groups) =
                            Count(gr, assignment.lists[g])
        /\ \A b \in 1..Len(ret.blocks) :
              \A i, j \in 1..Len(ret.blocks[b].groups) :
                  i < j => NameOf[ret.blocks[b].groups[i][1]]
                              <= NameOf[ret.blocks[b].groups[j][1]]

\* C8: the text of assignmentToString is sorted as RenderedSorted says,
\* whatever order the assignment held, and a second call on the same
\* assignment returns the same text.
C8_DeterministicRendering ==
    /\ []RenderedSorted
    /\ [][(Rendered /\ lastOp' = "assignmentToString") =>
              (err' = None /\ ret' = ret)]_vars

\* C8's case: a text for an assignment that holds its graders in descending
\* order of name, with a grader who has two groups of different first
\* members.
C8_Witness ==
    /\ Rendered
    /\ Len(assignment.order) >= 2
    /\ NameOf[assignment.order[1]] > NameOf[assignment.order[2]]
    /\ \E b \in 1..Len(ret.blocks) :
          /\ Len(ret.blocks[b].groups) = 2
          /\ ret.blocks[b].groups[1] # ret.blocks[b].groups[2]

\* The assignment the caller holds has a group without members.
HoldsEmptyGroup ==
    \E g \in DOMAIN assignment.lists :
        \E i \in 1..Len(assignment.lists[g]) : assignment.lists[g][i] = << >>

\* C9 as stated: assignmentToString fails with a DivisionUndefinedError on
\* a Course without graders and with a MalformedGroupError on an assignment
\* that holds a group without members, and returns no text.
C9_Original ==
    lastOp = "assignmentToString" =>
        /\ graders = {} => (err = "DivisionUndefinedError" /\ ret = NoValue)
        /\ (graders # {} /\ HoldsEmptyGroup) =>
              (err = "MalformedGroupError" /\ ret = NoValue)

\* C9, amended: assignmentToString fails with a ZeroDivisionError on a
\* Course without graders and with an IndexError on an assignment that
\* holds a group without members, and returns no text.
C9_ReportErrors ==
    lastOp = "assignmentToString" =>
        /\ graders = {} => (err = "ZeroDivisionError" /\ ret = NoValue)
        /\ (graders # {} /\ HoldsEmptyGroup) =>
              (err = "IndexError" /\ ret = NoValue)

\* C9's case: the report of an assignment with a group without members,
\* held by the grader of the later name, failed.
C9_Witness ==
    /\ lastOp = "assignmentToString"
    /\ Cardinality(graders) = 2
    /\ HoldsEmptyGroup
    /\ err # None
    /\ \E g \in graders :
          /\ NameOf[g] = 1
          /\ \A i \in 1..Len(assignment.lists[g]) :
                assignment.lists[g][i] # << >>

====
